---- MODULE Spec2Model ----
(***************************************************************************)
(* Model of src/main.py: a Streamlit page that loads a CSV of fitness      *)
(* measurements, reduces it to 14 numeric columns, imputes missing cells   *)
(* with the column mean, ranks the Pearson correlations of every column    *)
(* with the body-fat column and emits tables and plots.                    *)
(*                                                                         *)
(* Column names are romanised (the source names are Korean):               *)
(*   sinjang (height), chejung (weight), chejibangyul (body-fat ratio, the *)
(*   target), heoridulle (waist), iwangi_choejeo / suchukgi_choego (blood  *)
(*   pressure), angnyeok_jwa / angnyeok_u (grip left / right),             *)
(*   witmom_maraolligi (sit-ups), jejari_meollittwigi (standing jump),     *)
(*   BMI, sangdae_angnyeok (relative grip), heoridulle_sinjangbi           *)
(*   (waist-height ratio), banbok_yeopttwigi (side steps).                 *)
(*                                                                         *)
(* Numbers are exact rationals [nan, num, den]; NaN is the missing value.  *)
(* A correlation r is kept exactly as its sign and its square:             *)
(* r = sgn * sqrt(num / den), so order and sign of correlations are exact. *)
(* Floating-point rounding is not modelled.  The web framework and the     *)
(* plotting backend are external: a call to them is an element appended to *)
(* ui, and a plotting call always returns a figure.                        *)
(***************************************************************************)
EXTENDS Integers, Sequences, FiniteSets

VARIABLES entry, pc, file, df, df_numeric, target_corr, ranked,
          highest_corr_features, idx, ui, exception, tie_order

vars == <<entry, pc, file, df, df_numeric, target_corr, ranked,
          highest_corr_features, idx, ui, exception, tie_order>>

\* ------------------------------------------------------------------ bounds
\* Largest number of data rows of a CSV file.
MaxRows == 3
\* Numeric cells of a CSV file are the numerals "0" .. MaxVal.
MaxVal == 1
\* Largest number of columns of a table handed directly to
\* analyze_and_visualize.
MaxAnalyzeCols == 5

\* --------------------------------------------------------------- constants
\* preprocess_data, lines 31-33.
numerical_cols ==
    << "sinjang", "chejung", "chejibangyul", "heoridulle", "iwangi_choejeo",
       "suchukgi_choego", "angnyeok_jwa", "angnyeok_u", "witmom_maraolligi",
       "jejari_meollittwigi", "BMI", "sangdae_angnyeok",
       "heoridulle_sinjangbi", "banbok_yeopttwigi" >>

\* analyze_and_visualize, lines 56, 65: the target column.
target == "chejibangyul"

\* analyze_and_visualize, line 68: .head(10) of the ranking table.
RankingRows == 10

\* analyze_and_visualize, line 70: .head(3), the features that get a plot.
TopK == 3

\* main, line 115.
file_path == "fitness data.xlsx - KS_NFA_FTNESS_MESURE_ITEM_MESUR.csv"

\* ----------------------------------------------------------------- numbers
Abs(x) == IF x < 0 THEN -x ELSE x

Sgn(x) == IF x < 0 THEN -1 ELSE IF x = 0 THEN 0 ELSE 1

Min(a, b) == IF a < b THEN a ELSE b

RECURSIVE GCD(_, _)
GCD(a, b) == IF b = 0 THEN a ELSE GCD(b, a % b)

\* float('nan'): the missing value of pandas.
NaN == [nan |-> TRUE, num |-> 0, den |-> 1]

\* The rational n / d (d # 0) in lowest terms.
Rat(n, d) ==
    LET g == GCD(Abs(n), Abs(d))
        s == IF d < 0 THEN -1 ELSE 1
    IN  [nan |-> FALSE, num |-> s * (n \div g), den |-> s * (d \div g)]

RAdd(x, y) == Rat(x.num * y.den + y.num * x.den, x.den * y.den)

RSub(x, y) == Rat(x.num * y.den - y.num * x.den, x.den * y.den)

RMul(x, y) == Rat(x.num * y.num, x.den * y.den)

\* Series.head(k): the first k entries.
head(s, k) == SubSeq(s, 1, Min(k, Len(s)))

RECURSIVE Reverse(_)
Reverse(s) == IF s = <<>> THEN <<>> ELSE Append(Reverse(Tail(s)), Head(s))

Range(s) == {s[k] : k \in 1..Len(s)}

RECURSIVE RSum(_)
RSum(s) == IF s = <<>> THEN Rat(0, 1) ELSE RAdd(Head(s), RSum(Tail(s)))

\* ------------------------------------------------------------------ tables
\* A table (pandas DataFrame): the column labels in order, the row count and
\* the cells of each column.  None is Python's None.
None == [none |-> TRUE, cols |-> <<>>, nrows |-> 0, cell |-> <<>>]

Table(cols, nrows, cell) ==
    [none |-> FALSE, cols |-> cols, nrows |-> nrows, cell |-> cell]

Columns(t) == Range(t.cols)

\* The decimal numerals a CSV cell can hold, by value + 1.
Digits == <<"0", "1", "2", "3", "4", "5", "6", "7", "8", "9">>

Numerals == {Digits[k] : k \in 1..(MaxVal + 1)}

\* The text of a CSV cell: a numeral or an empty field.
CellTexts == Numerals \cup {""}

\* A column that is not in the allow-list.
extra_col == "ireum"

\* The position of a column label: 1..14 in the allow-list, 15 otherwise.
ColIndex(c) ==
    IF c \in Range(numerical_cols)
    THEN CHOOSE k \in 1..Len(numerical_cols) : numerical_cols[k] = c
    ELSE Len(numerical_cols) + 1

RECURSIVE Pow(_, _)
Pow(b, e) == IF e = 0 THEN 1 ELSE b * Pow(b, e - 1)

\* The cells of a column that is not under test: row i of column k holds the
\* i-th digit of k in base MaxVal + 1, so the columns differ from one another
\* and some are constant.
FillerColumn(c, n) ==
    [i \in 1..n |->
        Digits[((ColIndex(c) \div Pow(MaxVal + 1, i - 1)) % (MaxVal + 1)) + 1]]

\* The CSV headers tried: the allow-list in order; the allow-list and a column
\* that is not allow-listed, in reverse order; the allow-list without the
\* target; without another feature; two allow-listed columns only; and no
\* allow-listed column at all.
Headers ==
    { numerical_cols,
      Reverse(Append(numerical_cols, extra_col)),
      SelectSeq(numerical_cols, LAMBDA c : c # target),
      SelectSeq(numerical_cols, LAMBDA c : c # "BMI"),
      <<target, "BMI">>,
      <<extra_col>> }

\* The columns whose cells range over every cell text.
ProbeCols == {target, "BMI"}

\* The probe columns of a header; its first column when it has none of them.
Probes(h) ==
    IF ProbeCols \cap Range(h) = {} THEN {Head(h)} ELSE ProbeCols \cap Range(h)

\* A table a CSV file can hold: the probe column p holds the cells v, the
\* other columns are filled by FillerColumn.
RawTable(h, n, p, v) ==
    Table(h, n, [c \in Range(h) |-> IF c = p THEN v ELSE FillerColumn(c, n)])

\* What reading file_path does: the file is missing ("not_found"), it cannot
\* be read or parsed ("unreadable"), or it holds a table ("ok").
File(status, t) == [status |-> status, table |-> t]

\* -------------------------------------------------------------- UI elements
\* One call of the web framework (st.title, st.error, st.pyplot, ...): kind is
\* the function called, what names the call site, data is what it is given.
El(kind, what, data) == [kind |-> kind, what |-> what, data |-> data]

\* DataFrame.head(): the first 5 rows (lines 46, 122).
HeadRows == 5

\* --------------------------------------------------------------- load_data
\* A faulty variant of load_data: a failure other than a missing file is swallowed
\* without a banner.
load_data_Mut(f) ==
    IF f.status = "ok"
    THEN [ret |-> f.table, out |-> <<>>]
    ELSE IF f.status = "not_found"
    THEN [ret |-> None, out |-> <<El("error", "not_found", file_path)>>]
    ELSE [ret |-> None, out |-> <<>>]

\* load_data(file_path), lines 7-20: the table read, or an error banner and
\* None.  ret is the return value, out the elements emitted.
load_data(f) ==
    IF f.status = "ok"
    THEN [ret |-> f.table, out |-> <<>>]
    ELSE IF f.status = "not_found"
    THEN [ret |-> None, out |-> <<El("error", "not_found", file_path)>>]
    ELSE [ret |-> None, out |-> <<El("error", "read_failure", f.status)>>]

\* --------------------------------------------------------- preprocess_data
\* pd.to_numeric(errors='coerce') on one cell, line 40: the number a numeral
\* denotes, NaN for any other text.
to_numeric(s) ==
    IF \E k \in 1..Len(Digits) : Digits[k] = s
    THEN Rat((CHOOSE k \in 1..Len(Digits) : Digits[k] = s) - 1, 1)
    ELSE NaN

NotNaN(x) == ~x.nan

\* A faulty variant of mean: the sum is divided by the number of rows, not by the
\* number of cells that are present.
mean_Mut(col) ==
    LET present == SelectSeq(col, NotNaN)
        total   == RSum(present)
    IN  IF present = <<>> THEN NaN
        ELSE Rat(total.num, total.den * Len(col))

\* Series.mean(), line 43: the mean of the cells that are not NaN; NaN when
\* there is none.
mean(col) ==
    LET present == SelectSeq(col, NotNaN)
        total   == RSum(present)
    IN  IF present = <<>> THEN NaN
        ELSE Rat(total.num, total.den * Len(present))

\* Series.fillna(m), line 43: NaN cells become m; filling with NaN changes
\* nothing.
fillna(col, m) ==
    [i \in 1..Len(col) |-> IF col[i].nan /\ ~m.nan THEN m ELSE col[i]]

\* df[numerical_cols], line 36: raises KeyError when a label is not a column
\* of df.
MissingLabels(t) == {c \in Range(numerical_cols) : c \notin Columns(t)}

\* preprocess_data(df), lines 22-48.  raised: KeyError left the function at
\* line 36; ret: the table returned; out: the elements emitted.
preprocess_data(t) ==
    LET header  == <<El("subheader", "preprocess", 0)>>
        numeric == [c \in Range(numerical_cols) |->
                       [i \in 1..t.nrows |-> to_numeric(t.cell[c][i])]]
        filled  == [c \in Range(numerical_cols) |->
                       fillna(numeric[c], mean(numeric[c]))]
        result  == Table(numerical_cols, t.nrows, filled)
    IN  IF MissingLabels(t) # {}
        THEN [raised |-> TRUE, ret |-> None, out |-> header]
        ELSE [raised |-> FALSE, ret |-> result,
              out |-> header \o
                      << El("write", "numeric_count", result.nrows),
                         El("dataframe", "numeric_head",
                            Min(HeadRows, result.nrows)) >>]

\* DataFrame.empty, line 129: some axis has length 0.
empty(t) == t.nrows = 0 \/ t.cols = <<>>

\* --------------------------------------------------- analyze_and_visualize
\* A correlation coefficient r = sgn * sqrt(num / den), or NaN.
NaNCorr == [nan |-> TRUE, sgn |-> 0, num |-> 0, den |-> 1]

\* The sum of xs[i] over the rows i of the sequence rows.
RECURSIVE RowSum(_, _)
RowSum(xs, rows) ==
    IF rows = <<>> THEN Rat(0, 1)
    ELSE RAdd(xs[Head(rows)], RowSum(xs, Tail(rows)))

\* The sum of xs[i] * ys[i] over the rows i of the sequence rows.
RECURSIVE ProdSum(_, _, _)
ProdSum(xs, ys, rows) ==
    IF rows = <<>> THEN Rat(0, 1)
    ELSE RAdd(RMul(xs[Head(rows)], ys[Head(rows)]), ProdSum(xs, ys, Tail(rows)))

\* The rows 1..n on which both columns hold a number, in order.
RECURSIVE CompleteRows(_, _, _)
CompleteRows(xs, ys, n) ==
    IF n = 0 THEN <<>>
    ELSE LET rest == CompleteRows(xs, ys, n - 1)
         IN  IF xs[n].nan \/ ys[n].nan THEN rest ELSE Append(rest, n)

\* One entry of DataFrame.corr(), line 62: the Pearson correlation of two
\* columns over the rows where both hold a number; NaN when there is no such
\* row or one of the columns does not vary.
pearson(xs, ys) ==
    LET rows == CompleteRows(xs, ys, Len(xs))
        nobs == Rat(Len(rows), 1)
        sx   == RowSum(xs, rows)
        sy   == RowSum(ys, rows)
        cov  == RSub(RMul(nobs, ProdSum(xs, ys, rows)), RMul(sx, sy))
        vx   == RSub(RMul(nobs, ProdSum(xs, xs, rows)), RMul(sx, sx))
        vy   == RSub(RMul(nobs, ProdSum(ys, ys, rows)), RMul(sy, sy))
        sq   == Rat(cov.num * cov.num * vx.den * vy.den,
                    cov.den * cov.den * vx.num * vy.num)
    IN  IF rows = <<>> \/ vx.num = 0 \/ vy.num = 0 THEN NaNCorr
        ELSE [nan |-> FALSE, sgn |-> Sgn(cov.num), num |-> sq.num, den |-> sq.den]

\* correlation_matrix[c], lines 62 and 65: the column c of the correlation
\* matrix, a Series with one entry per column of the table, in column order.
corr_column(t, c) ==
    [k \in 1..Len(t.cols) |->
        [name |-> t.cols[k], val |-> pearson(t.cell[t.cols[k]], t.cell[c])]]

\* a < b for two correlations that are numbers.
CorrLess(a, b) ==
    IF a.sgn # b.sgn THEN a.sgn < b.sgn
    ELSE IF a.sgn = 1 THEN a.num * b.den < b.num * a.den
    ELSE IF a.sgn = -1 THEN a.num * b.den > b.num * a.den
    ELSE FALSE

\* The sort of Series.sort_values is numpy's 'quicksort', which is not stable:
\* the order of equal values is left to the build.  tie is "index_order"
\* (equal values keep their order) or "reverse_order" (they swap).
TieOrders == {"index_order", "reverse_order"}

RECURSIVE InsertDesc(_, _, _)
InsertDesc(s, x, tie) ==
    IF s = <<>> THEN <<x>>
    ELSE IF CorrLess(x.val, Head(s).val)
            \/ (~CorrLess(Head(s).val, x.val) /\ tie = "index_order")
         THEN <<Head(s)>> \o InsertDesc(Tail(s), x, tie)
         ELSE <<x>> \o s

RECURSIVE SortNumbersDesc(_, _, _)
SortNumbersDesc(done, rest, tie) ==
    IF rest = <<>> THEN done
    ELSE SortNumbersDesc(InsertDesc(done, Head(rest), tie), Tail(rest), tie)

IsNumber(e) == ~e.val.nan

IsNaN(e) == e.val.nan

\* Series.sort_values(ascending=False), lines 65, 68, 70: the numbers in
\* descending order, then the NaN entries in their original order.
sort_values(s, tie) ==
    SortNumbersDesc(<<>>, SelectSeq(s, IsNumber), tie) \o SelectSeq(s, IsNaN)

\* Series.drop(label), line 65.
drop(s, label) == SelectSeq(s, LAMBDA e : e.name # label)

\* Series.abs(), lines 68 and 70.
abs(s) == [k \in 1..Len(s) |-> [s[k] EXCEPT !.val.sgn = Abs(@)]]

\* Series[label], line 92.
Lookup(s, label) == s[CHOOSE k \in 1..Len(s) : s[k].name = label].val

\* Series.index.tolist(), line 70.
index(s) == [k \in 1..Len(s) |-> s[k].name]

\* target_corr, line 65.
TargetCorr(t, tie) == drop(sort_values(corr_column(t, target), tie), target)

\* A faulty variant of Ranking: the absolute value is taken after sorting, so the order
\* is that of the signed values.
Ranking_Mut(tc, tie) == abs(sort_values(tc, tie))

\* target_corr.abs().sort_values(ascending=False), lines 68 and 70.
Ranking(tc, tie) == sort_values(abs(tc), tie)

\* A faulty variant of HighestCorrFeatures: the first entries of the signed series.
HighestCorrFeatures_Mut(tc, tie) == index(head(tc, TopK))

\* highest_corr_features, line 70.
HighestCorrFeatures(tc, tie) == index(head(Ranking(tc, tie), TopK))

\* f"{corr_value:.2f}", line 103: the sign and the hundredths of |r|, rounded
\* to the nearest: k with (k - 1/2)^2 <= 10000 * r^2 < (k + 1/2)^2.
Format2f(v) ==
    IF v.nan THEN [nan |-> TRUE, neg |-> FALSE, hundredths |-> 0]
    ELSE [nan |-> FALSE, neg |-> v.sgn < 0,
          hundredths |->
              CHOOSE k \in 0..100 :
                  /\ (k = 0 \/ (2 * k - 1) * (2 * k - 1) * v.den <= 40000 * v.num)
                  /\ 40000 * v.num < (2 * k + 1) * (2 * k + 1) * v.den]

\* The point colour, line 95: the comparison NaN < 0 is false.
Color(corr_value) == IF ~corr_value.nan /\ corr_value.sgn < 0 THEN "red" ELSE "blue"

\* A faulty variant of ScatterFigure: the value is read from the absolute series.
ScatterFigure_Mut(tc, feature) ==
    LET corr_value == Lookup(abs(tc), feature)
    IN  El("pyplot", "scatter",
           [feature |-> feature, color |-> Color(corr_value),
            line_color |-> "gray", title |-> Format2f(corr_value)])

\* One pass of the loop, lines 88-106: the figure handed to st.pyplot.
ScatterFigure(tc, feature) ==
    LET corr_value == Lookup(tc, feature)
    IN  El("pyplot", "scatter",
           [feature |-> feature, color |-> Color(corr_value),
            line_color |-> "gray", title |-> Format2f(corr_value)])

\* -------------------------------------------------------------------- main
\* entry is the function that was called: main (the script, line 135) or
\* analyze_and_visualize with a table of the caller.  pc is the position of
\* the run: start, loaded, preview, preprocessed, analyze, scatter, done (the
\* entry function returned) or raised (an exception left it).
InitMain ==
    /\ entry = "main"
    /\ pc = "start"
    /\ \/ file = File("not_found", None)
       \/ file = File("unreadable", None)
       \/ \E h \in Headers, n \in 0..MaxRows :
             \E p \in Probes(h), v \in [1..n -> CellTexts] :
                file = File("ok", RawTable(h, n, p, v))
    /\ df_numeric = None

\* main, lines 110-120: the page title and description, then load_data; the
\* run ends when load_data returned None.
MainLoad ==
    /\ pc = "start"
    /\ \E r \in {load_data(file)} :
           /\ df' = r.ret
           /\ ui' = ui \o << El("title", "title", 0),
                             El("markdown", "description", file_path) >> \o r.out
           /\ pc' = IF r.ret.none THEN "done" ELSE "loaded"
    /\ UNCHANGED <<entry, file, df_numeric, target_corr, ranked,
                   highest_corr_features, idx, exception, tie_order>>

\* main, lines 121-124: the preview of the raw table.
MainPreview ==
    /\ pc = "loaded"
    /\ ui' = ui \o << El("subheader", "raw_preview", 0),
                      El("dataframe", "raw_head", Min(HeadRows, df.nrows)),
                      El("write", "raw_count", df.nrows),
                      El("markdown", "rule", 0) >>
    /\ pc' = "preview"
    /\ UNCHANGED <<entry, file, df, df_numeric, target_corr, ranked,
                   highest_corr_features, idx, exception, tie_order>>

\* main, line 127: the call of preprocess_data; a KeyError raised in it is
\* caught nowhere and leaves main.
MainPreprocess ==
    /\ pc = "preview"
    /\ \E r \in {preprocess_data(df)} :
           /\ ui' = ui \o r.out
           /\ df_numeric' = r.ret
           /\ exception' = IF r.raised THEN "KeyError" ELSE "none"
           /\ pc' = IF r.raised THEN "raised" ELSE "preprocessed"
    /\ UNCHANGED <<entry, file, df, target_corr, ranked, highest_corr_features, idx,
                   tie_order>>

\* main, lines 129-132: the analysis is entered when the numeric table is
\* neither None nor empty; otherwise main returns.
MainCheck ==
    /\ pc = "preprocessed"
    /\ IF df_numeric.none \/ empty(df_numeric)
       THEN pc' = "done" /\ ui' = ui
       ELSE pc' = "analyze" /\ ui' = ui \o <<El("markdown", "rule", 0)>>
    /\ UNCHANGED <<entry, file, df, df_numeric, target_corr, ranked,
                   highest_corr_features, idx, exception, tie_order>>

\* analyze_and_visualize, lines 56-58: no target column.
AnalyzeMissingTarget ==
    /\ pc = "analyze"
    /\ target \notin Columns(df_numeric)
    /\ ui' = ui \o <<El("error", "missing_target", target)>>
    /\ pc' = "done"
    /\ UNCHANGED <<entry, file, df, df_numeric, target_corr, ranked,
                   highest_corr_features, idx, exception, tie_order>>

\* analyze_and_visualize, lines 61-86: the correlations, the ranking table,
\* the success banner, the heatmap and the header of the scatter plots.
AnalyzeRank ==
    /\ pc = "analyze"
    /\ target \in Columns(df_numeric)
    /\ \E tie \in TieOrders :
          /\ tie_order' = tie
          /\ target_corr' = TargetCorr(df_numeric, tie)
          /\ ranked' = Ranking(target_corr', tie)
          /\ highest_corr_features' = HighestCorrFeatures(target_corr', tie)
          /\ ui' = ui \o
                    << El("header", "correlation", 0),
                       El("markdown", "highest", 0),
                       El("dataframe", "ranking", head(ranked', RankingRows)),
                       El("success", "top3", highest_corr_features'),
                       El("header", "heatmap", 0),
                       El("pyplot", "heatmap", 0),
                       El("markdown", "rule", 0),
                       El("header", "scatter", 0) >>
    /\ idx' = 1
    /\ pc' = "scatter"
    /\ UNCHANGED <<entry, file, df, df_numeric, exception>>

\* analyze_and_visualize, lines 88-106: one pass of the loop.
ScatterPlot ==
    /\ pc = "scatter"
    /\ idx <= Len(highest_corr_features)
    /\ ui' = ui \o <<ScatterFigure(target_corr, highest_corr_features[idx])>>
    /\ idx' = idx + 1
    /\ UNCHANGED <<entry, pc, file, df, df_numeric, target_corr, ranked,
                   highest_corr_features, exception, tie_order>>

\* analyze_and_visualize, line 88: the loop is exhausted and the call returns.
ScatterExit ==
    /\ pc = "scatter"
    /\ idx > Len(highest_corr_features)
    /\ pc' = "done"
    /\ UNCHANGED <<entry, file, df, df_numeric, target_corr, ranked,
                   highest_corr_features, idx, ui, exception, tie_order>>

\* The column selections tried: up to MaxAnalyzeCols - 1 consecutive features
\* of the allow-list, with and without the target.
AnalyzeStarts == {1, 11}

FeatureSets ==
    { {numerical_cols[k] :
          k \in a..Min(a + n - 1, Len(numerical_cols))} \ {target} :
        <<a, n>> \in AnalyzeStarts \X (0..(MaxAnalyzeCols - 1)) }

AnalyzeHeaders ==
    { SelectSeq(numerical_cols, LAMBDA c : c \in F \cup T) :
        <<F, T>> \in FeatureSets \X {{}, {target}} } \ {<<>>}

Project(t, h) == Table(h, t.nrows, [c \in Range(h) |-> t.cell[c]])

\* analyze_and_visualize called directly with a table of at most
\* MaxAnalyzeCols columns: a selection of the columns of a table that
\* preprocess_data returns.
InitAnalyze ==
    /\ entry = "analyze_and_visualize"
    /\ pc = "analyze"
    /\ file = File("none", None)
    /\ \E n \in 1..MaxRows, h \in AnalyzeHeaders :
          \E p \in Probes(h), v \in [1..n -> CellTexts] :
             df_numeric =
                 Project(preprocess_data(RawTable(numerical_cols, n, p, v)).ret, h)

Init ==
    /\ InitMain \/ InitAnalyze
    /\ df = None
    /\ target_corr = <<>>
    /\ ranked = <<>>
    /\ highest_corr_features = <<>>
    /\ idx = 0
    /\ ui = <<>>
    /\ exception = "none"
    /\ tie_order = "unset"

Next ==
    \/ MainLoad
    \/ MainPreview
    \/ MainPreprocess
    \/ MainCheck
    \/ AnalyzeMissingTarget
    \/ AnalyzeRank
    \/ ScatterPlot
    \/ ScatterExit

Spec == Init /\ [][Next]_vars

\* ------------------------------------------------------------------ claims
UiCount(kind, what) ==
    Cardinality({k \in 1..Len(ui) : ui[k].kind = kind /\ ui[k].what = what})

Emitted(kind, what) == UiCount(kind, what) > 0

ErrorCount == Cardinality({k \in 1..Len(ui) : ui[k].kind = "error"})

\* None of the ranking table, the success banner, the heatmap, a scatter plot.
NoAnalysisBlock ==
    /\ ~Emitted("dataframe", "ranking")
    /\ ~Emitted("success", "top3")
    /\ ~Emitted("pyplot", "heatmap")
    /\ ~Emitted("pyplot", "scatter")

\* The run is over: the entry function returned or an exception left it.
Terminal == pc \in {"done", "raised"}

\* main called preprocess_data and the call is over.
PreprocessCalled ==
    entry = "main" /\ pc \notin {"start", "loaded", "preview"} /\ ~df.none

\* analyze_and_visualize got past line 70: the ranking exists.
Analysed == tie_order # "unset"

IsScatter(e) == e.kind = "pyplot" /\ e.what = "scatter"

\* The Pearson correlation of a column of df_numeric with the target.
CorrWithTarget(c) == pearson(df_numeric.cell[c], df_numeric.cell[target])

\* |a| < |b| for two correlations that are numbers.
AbsLess(a, b) == a.num * b.den < b.num * a.den

\* C1 (stated as claimed): for every raw table, also one that lacks some of
\* the 14 allow-listed columns, preprocess_data completes without an exception
\* and returns a table whose columns are the allow-listed columns of the raw
\* table, in allow-list order.
C1_PreprocessKeepsPresentColumns ==
    PreprocessCalled =>
        /\ exception = "none"
        /\ ~df_numeric.none
        /\ df_numeric.cols = SelectSeq(numerical_cols, LAMBDA c : c \in Columns(df))

\* C2 (stated as claimed): no cell of the table preprocess_data returns is
\* missing, and a column none of whose cells parses as a number is filled
\* with 0.
C2_NoMissingCell ==
    (PreprocessCalled /\ ~df_numeric.none) =>
        \A c \in Columns(df_numeric) : \A i \in 1..df_numeric.nrows :
            /\ ~df_numeric.cell[c][i].nan
            /\ (\A j \in 1..df.nrows : to_numeric(df.cell[c][j]).nan)
                  => df_numeric.cell[c][i] = Rat(0, 1)

\* The rows of column c of the raw table whose cell is a numeral, the value
\* of a numeral, and the sum of the values of a set of rows.
NumeralRows(c) == {i \in 1..df.nrows : df.cell[c][i] \in Range(Digits)}

NumeralValue(s) == (CHOOSE k \in 1..Len(Digits) : Digits[k] = s) - 1

RECURSIVE ValueSum(_, _)
ValueSum(c, rows) ==
    IF rows = {} THEN 0
    ELSE LET i == CHOOSE r \in rows : TRUE
         IN  NumeralValue(df.cell[c][i]) + ValueSum(c, rows \ {i})

\* C3: preprocess_data returns as many rows as the raw table has, and in every
\* column with at least one parseable cell each parseable cell keeps its value
\* and each other cell holds the arithmetic mean of the parseable cells:
\* cell * (number of parseable cells) = (sum of the parseable cells).
C3_MeanImputation ==
    (PreprocessCalled /\ ~df_numeric.none) =>
        /\ df_numeric.nrows = df.nrows
        /\ \A c \in Range(numerical_cols) :
              NumeralRows(c) # {} =>
                  \A i \in 1..df.nrows :
                      LET x == df_numeric.cell[c][i]
                      IN  /\ ~x.nan
                          /\ IF i \in NumeralRows(c)
                             THEN x.num = NumeralValue(df.cell[c][i]) /\ x.den = 1
                             ELSE x.num * Cardinality(NumeralRows(c))
                                     = x.den * ValueSum(c, NumeralRows(c))

\* C3 witness: BMI = ["0", "", "1"] was preprocessed to [0, 1/2, 1].
C3_Witness ==
    /\ PreprocessCalled /\ ~df_numeric.none
    /\ df.nrows = 3
    /\ df.cell["BMI"] = <<"0", "", "1">>
    /\ df_numeric.cell["BMI"] = <<Rat(0, 1), Rat(1, 2), Rat(1, 1)>>

\* C4 (stated as claimed): when the loaded raw table lacks the target column,
\* a run of main emits the missing-target error banner and none of the
\* ranking table, the success banner, the heatmap and the scatter plots.
C4_MissingTargetBanner ==
    (entry = "main" /\ Terminal /\ ~df.none /\ target \notin Columns(df)) =>
        /\ Emitted("error", "missing_target")
        /\ NoAnalysisBlock

\* C5 (stated as claimed): when the raw table has no allow-listed column,
\* preprocess_data returns an empty table, the run emits an error banner and
\* no analysis block is emitted.
C5_NoFeaturesBanner ==
    (entry = "main" /\ Terminal /\ ~df.none
        /\ Columns(df) \cap Range(numerical_cols) = {}) =>
        /\ ~df_numeric.none /\ empty(df_numeric)
        /\ ErrorCount > 0
        /\ NoAnalysisBlock

\* C6: when loading fails, load_data returns None, the run ends having emitted
\* exactly one error banner (file-not-found with the path when the file is
\* missing, data-loading-error with the cause otherwise) and nothing but the
\* title and the description besides.
C6_LoadFailure ==
    (entry = "main" /\ pc # "start" /\ file.status # "ok") =>
        /\ pc = "done"
        /\ df.none
        /\ ErrorCount = 1
        /\ file.status = "not_found" =>
              \E k \in 1..Len(ui) : /\ ui[k].kind = "error"
                                    /\ ui[k].what = "not_found"
                                    /\ ui[k].data = file_path
        /\ file.status # "not_found" =>
              \E k \in 1..Len(ui) : /\ ui[k].kind = "error"
                                    /\ ui[k].what = "read_failure"
                                    /\ ui[k].data = file.status
        /\ \A k \in 1..Len(ui) :
              \/ ui[k].kind \in {"title", "error"}
              \/ ui[k].kind = "markdown" /\ ui[k].what = "description"

\* C6 witness: a run on a missing file is over and its banner is on the page.
C6_Witness ==
    /\ entry = "main" /\ pc = "done" /\ file.status = "not_found"
    /\ Emitted("error", "not_found")

\* C7: the ranking never contains the target, contains every other column of
\* the numeric table exactly once, each with the absolute value of its
\* correlation with the target, and is in descending order of that value: no
\* entry is smaller than a later one, and the undefined (NaN) correlations of
\* columns that do not vary come last.
C7_Ranking ==
    Analysed =>
        /\ \A k \in 1..Len(ranked) : ranked[k].name # target
        /\ \A c \in Columns(df_numeric) \ {target} :
              Cardinality({k \in 1..Len(ranked) : ranked[k].name = c}) = 1
        /\ Len(ranked) = Len(df_numeric.cols) - 1
        /\ \A k \in 1..Len(ranked) :
              \A r \in {CorrWithTarget(ranked[k].name)}, a \in {ranked[k].val} :
                  /\ a.nan = r.nan
                  /\ ~r.nan => /\ a.sgn = Abs(r.sgn)
                               /\ a.num * r.den = r.num * a.den
        /\ \A i, j \in 1..Len(ranked) :
              i < j =>
                  /\ ranked[i].val.nan => ranked[j].val.nan
                  /\ ~(/\ ~ranked[i].val.nan
                       /\ ~ranked[j].val.nan
                       /\ AbsLess(ranked[i].val, ranked[j].val))

\* C7 witness: a ranking in which a negative correlation stands above a
\* positive one of smaller magnitude, and an undefined one comes last.
C7_Witness ==
    /\ Analysed
    /\ Len(ranked) >= 3
    /\ ranked[Len(ranked)].val.nan
    /\ \E i, j \in 1..Len(ranked) :
          /\ i < j
          /\ ~ranked[j].val.nan
          /\ CorrWithTarget(ranked[i].name).sgn = -1
          /\ CorrWithTarget(ranked[j].name).sgn = 1
          /\ AbsLess(ranked[j].val, ranked[i].val)

\* C8: the selected features are the first min(3, number of non-target
\* columns) entries of the ranking, and a completed analysis has emitted one
\* heatmap and exactly one scatter plot per selected feature, in that order.
C8_TopK ==
    Analysed =>
        LET k3 == Min(3, Len(df_numeric.cols) - 1)
            plots == SelectSeq(ui, IsScatter)
        IN  /\ Len(highest_corr_features) = k3
            /\ \A k \in 1..k3 : highest_corr_features[k] = ranked[k].name
            /\ pc = "done" =>
                  /\ UiCount("pyplot", "heatmap") = 1
                  /\ Len(plots) = k3
                  /\ \A k \in 1..k3 :
                        plots[k].data.feature = highest_corr_features[k]

\* C8 witness: a completed analysis of a table with two non-target columns
\* has emitted two scatter plots.
C8_Witness ==
    /\ Analysed /\ pc = "done"
    /\ Len(df_numeric.cols) = 3
    /\ UiCount("pyplot", "scatter") = 2

\* C9: every scatter plot is coloured by the signed correlation of its feature
\* with the target (red when negative, blue when zero or positive), its title
\* carries that signed value to two decimals, and its regression line is gray.
C9_ScatterSign ==
    Analysed =>
        \A k \in 1..Len(ui) :
            IsScatter(ui[k]) =>
                LET d == ui[k].data
                    r == CorrWithTarget(d.feature)
                    h == d.title.hundredths
                IN  /\ d.line_color = "gray"
                    /\ d.title.nan = r.nan
                    /\ ~r.nan =>
                          /\ d.color = IF r.sgn < 0 THEN "red" ELSE "blue"
                          /\ d.title.neg = (r.sgn < 0)
                          /\ h = 0 \/ (2 * h - 1) * (2 * h - 1) * r.den <= 40000 * r.num
                          /\ 40000 * r.num < (2 * h + 1) * (2 * h + 1) * r.den

\* C9 witness: one page shows a red plot (negative correlation) and a blue
\* plot (positive correlation).
C9_Witness ==
    /\ Analysed
    /\ \E i, j \in 1..Len(ui) :
          /\ IsScatter(ui[i]) /\ IsScatter(ui[j])
          /\ ui[i].data.color = "red" /\ CorrWithTarget(ui[i].data.feature).sgn = -1
          /\ ui[j].data.color = "blue" /\ CorrWithTarget(ui[j].data.feature).sgn = 1

\* The block an element belongs to, in the order of the page: 1 title and
\* description, 2 raw preview, 3 preprocessing, 4 ranking table, 5 success
\* banner, 6 heatmap, 7 scatter plots, 8 an error banner; 0 for a separator.
Block(e) ==
    IF e.kind = "error" THEN 8
    ELSE IF e.what \in {"title", "description"} THEN 1
    ELSE IF e.what \in {"raw_preview", "raw_head", "raw_count"} THEN 2
    ELSE IF e.what \in {"preprocess", "numeric_count", "numeric_head"} THEN 3
    ELSE IF e.what \in {"correlation", "highest", "ranking"} THEN 4
    ELSE IF e.what = "top3" THEN 5
    ELSE IF e.what = "heatmap" THEN 6
    ELSE IF e.what = "scatter" THEN 7
    ELSE 0

\* C10 (stated as claimed): in every run of main the blocks appear in the
\* fixed order, nothing follows an error banner, and a run that ends before
\* the last scatter plot has told the user why: its last element is an error
\* banner (an uncaught exception, which the web framework reports, is counted
\* as a message too).
C10_OrderAndMessage ==
    entry = "main" =>
        /\ \A i, j \in 1..Len(ui) :
              (i < j /\ Block(ui[i]) # 0 /\ Block(ui[j]) # 0)
                  => Block(ui[i]) <= Block(ui[j])
        /\ \A i \in 1..Len(ui) : ui[i].kind = "error" => i = Len(ui)
        /\ (Terminal /\ ~(Analysed /\ pc = "done")) =>
              \/ exception # "none"
              \/ ui # <<>> /\ ui[Len(ui)].kind = "error"

====
